---- MODULE Spec2Model ----
(***************************************************************************)
(* Model of lib/src/lib.rs: Grid<T>, a dense row-major 2D container with   *)
(* an optional coordinate offset, and its iterator GridIntoIterator<T>.    *)
(* The element type is bool, as in the crate's tests (Grid<bool>).         *)
(***************************************************************************)
EXTENDS Integers, Sequences, FiniteSets, TLC

\* ---------------------------------------------------------------- bounds
MaxDim == 2
MaxOff == 1
MaxSets == 2
MaxCells == 4

Dims == 0..MaxDim
Offs == 0..MaxOff
\* Logical coordinates: from one below the least valid one to one above the
\* greatest valid one of the widest grid.
Coords == (0 - 1)..MaxDim
Rows == 0..(MaxDim + 1)
\* Coordinates of the cells a traversal visits.
Cells == 0..(MaxDim - 1)
Elems == BOOLEAN
\* Two traversals are enough to observe that traversals are independent.
Traversals == {1, 2}

\* ------------------------------------------------- primitive Rust values
\* Option<T>: None is the empty tuple, Some(v) the one-element tuple.
None == <<>>
Some(v) == <<v>>

\* bool::default()
Default == FALSE

\* `as usize` of an isize: two's-complement reinterpretation.  The word is
\* scaled from 2^64 to 2^30 so the values fit TLC's integers; a
\* negative isize still becomes a value beyond every Vec length.
UsizeModulus == 2^30
\* Variant: the magnitude of the isize instead of its reinterpretation.
AsUsize_abs(i) == IF i < 0 THEN 0 - i ELSE i
AsUsize(i) == i % UsizeModulus

\* Vec::get / slice::get with a usize index (0-based).
VecGet(vec, i) == IF i < Len(vec) THEN Some(vec[i + 1]) ELSE None

\* <bool as Display>::fmt, as a sequence of characters.
Format(b) == IF b THEN <<"t", "r", "u", "e">> ELSE <<"f", "a", "l", "s", "e">>

\* ------------------------------------------------------------ Grid::new
new(width, height, x_offset, y_offset) ==
    [grid |-> [i \in 1..(width * height) |-> Default],
     grid_size |-> <<width, height>>,
     offset |-> y_offset * height + x_offset]

\* ------------------------------------------------- Grid::coords_to_index
\* Variant: the row stride is the height instead of the width.
coords_to_index_height(self, x, y) ==
    AsUsize((y * self.grid_size[2] + x) + self.offset)

coords_to_index(self, x, y) ==
    AsUsize((y * self.grid_size[1] + x) + self.offset)

\* ---------------------------------------------------- Grid::check_bounds
\* Variant: the lower bounds x >= 0, y >= 0 are not tested.
check_bounds_upper(self, x, y) ==
    IF self.offset = 0
    THEN x < self.grid_size[1] /\ y < self.grid_size[2]
    ELSE TRUE

\* Variant: the bounds are tested whatever the offset.
check_bounds_always(self, x, y) ==
    x < self.grid_size[1] /\ y < self.grid_size[2] /\ x >= 0 /\ y >= 0

check_bounds(self, x, y) ==
    IF self.offset = 0
    THEN x < self.grid_size[1] /\ y < self.grid_size[2] /\ x >= 0 /\ y >= 0
    ELSE TRUE

\* -------------------------------------------------------------- Grid::get
get(self, x, y) ==
    IF ~check_bounds(self, x, y)
    THEN None
    ELSE VecGet(self.grid, coords_to_index(self, x, y))

\* -------------------------------------------------------------- Grid::set
\* Variant: the element is written before the bounds are tested.
set_write_first(self, x, y, item) ==
    LET index == coords_to_index(self, x, y)
    IN IF index < Len(self.grid)
       THEN [self |-> [self EXCEPT !.grid[index + 1] = item],
             ret |-> IF check_bounds(self, x, y) THEN "Ok" ELSE "Err"]
       ELSE [self |-> self, ret |-> "Err"]

\* Returns the grid after the call and the Result ("Ok" / "Err").
set(self, x, y, item) ==
    IF ~check_bounds(self, x, y)
    THEN [self |-> self, ret |-> "Err"]
    ELSE LET index == coords_to_index(self, x, y)
         IN IF index < Len(self.grid)
            THEN [self |-> [self EXCEPT !.grid[index + 1] = item], ret |-> "Ok"]
            ELSE [self |-> self, ret |-> "Err"]

\* ------------------------------------------------------------- Grid::grid
grid(self) == self.grid

\* ---------------------------------------------------------- Grid::get_row
\* Variant: the row start is shifted by the grid's offset.
get_row_offset(self, row_idx) ==
    LET width == self.grid_size[1]
        offset == row_idx * width + self.offset
    IN IF offset + width > Len(self.grid)
       THEN [panicked |-> TRUE, ret |-> <<>>]
       ELSE [panicked |-> FALSE,
             ret |-> SubSeq(self.grid, offset + 1, offset + width)]

\* &self.grid[offset..offset + width] panics when the range end exceeds the
\* buffer length.
get_row(self, row_idx) ==
    LET width == self.grid_size[1]
        offset == row_idx * width
    IN IF offset + width > Len(self.grid)
       THEN [panicked |-> TRUE, ret |-> <<>>]
       ELSE [panicked |-> FALSE,
             ret |-> SubSeq(self.grid, offset + 1, offset + width)]

\* ------------------------------------------------- <Grid as Display>::fmt
\* Variant: the element is addressed through the offset mapping.
fmt_index_offset(self, col, row) == coords_to_index(self, row, col)

\* Index of the element read at loop position (col, row): col * x + row.
fmt_index(self, col, row) == col * self.grid_size[1] + row

\* The inner loop `for row in 0..x`; unwrap() of a missing element panics.
RECURSIVE fmt_row(_, _, _, _)
fmt_row(self, col, row, output) ==
    IF output.panicked \/ row >= self.grid_size[1]
    THEN output
    ELSE LET item == VecGet(self.grid, fmt_index(self, col, row))
         IN IF item = None
            THEN [panicked |-> TRUE, ret |-> <<>>]
            ELSE fmt_row(self, col, row + 1,
                         [output EXCEPT !.ret = @ \o Format(item[1])])

\* The outer loop `for col in 0..y`, adding "\n" after each row.
RECURSIVE fmt_rows(_, _, _)
fmt_rows(self, col, output) ==
    IF output.panicked \/ col >= self.grid_size[2]
    THEN output
    ELSE LET r == fmt_row(self, col, 0, output)
         IN IF r.panicked
            THEN r
            ELSE fmt_rows(self, col + 1, [r EXCEPT !.ret = @ \o <<"\n">>])

\* write!(f, "\n{}", output)
fmt(self) ==
    LET r == fmt_rows(self, 0, [panicked |-> FALSE, ret |-> <<>>])
    IN IF r.panicked THEN r ELSE [r EXCEPT !.ret = <<"\n">> \o @]

\* ------------------------------------- Grid::iter / IntoIterator::into_iter
\* Variant: the traversal gets a new grid of the same shape, not a copy.
iter_fresh(self) ==
    [grid |-> [self EXCEPT !.grid = [i \in DOMAIN @ |-> Default]],
     x |-> 0, y |-> 0]

iter(self) == [grid |-> self, x |-> 0, y |-> 0]

into_iter(self) == [grid |-> self, x |-> 0, y |-> 0]

\* ------------------------------------------------ GridIntoIterator::next
\* Returns the iterator after the call and the Option<GridIteratorItem>.
\* Variant: the end of a row is detected against the height.
next_height(self) ==
    LET wrap == self.x = self.grid.grid_size[2]
        x1 == IF wrap THEN 0 ELSE self.x
        y1 == IF wrap THEN self.y + 1 ELSE self.y
    IN IF wrap /\ y1 = self.grid.grid_size[2]
       THEN [self |-> [self EXCEPT !.x = x1, !.y = y1], ret |-> None]
       ELSE LET index == coords_to_index(self.grid, x1, y1)
                elem == VecGet(self.grid.grid, index)
                cell == IF elem = None
                        THEN None
                        ELSE Some([x |-> x1, y |-> y1, element |-> elem[1]])
            IN [self |-> [self EXCEPT !.x = x1 + 1, !.y = y1], ret |-> cell]

next(self) ==
    LET wrap == self.x = self.grid.grid_size[1]
        x1 == IF wrap THEN 0 ELSE self.x
        y1 == IF wrap THEN self.y + 1 ELSE self.y
    IN IF wrap /\ y1 = self.grid.grid_size[2]
       THEN [self |-> [self EXCEPT !.x = x1, !.y = y1], ret |-> None]
       ELSE LET index == coords_to_index(self.grid, x1, y1)
                elem == VecGet(self.grid.grid, index)
                cell == IF elem = None
                        THEN None
                        ELSE Some([x |-> x1, y |-> y1, element |-> elem[1]])
            IN [self |-> [self EXCEPT !.x = x1 + 1, !.y = y1], ret |-> cell]

VARIABLES g, args, alive, nsets, last, iters

vars == <<g, args, alive, nsets, last, iters>>

Call(op, x, y, item, ret, panicked, before) ==
    [op |-> op, x |-> x, y |-> y, item |-> item, ret |-> ret,
     panicked |-> panicked, before |-> before]

Init ==
    /\ args \in Dims \X Dims \X Offs \X Offs
    /\ g = new(args[1], args[2], args[3], args[4])
    /\ alive = TRUE
    /\ nsets = 0
    /\ last = Call("new", 0, 0, Default, <<>>, FALSE, g)
    /\ iters = <<>>

Usable == alive /\ ~last.panicked

Set(x, y, item) ==
    /\ Usable
    /\ LET r == set(g, x, y, item)
       IN /\ r.ret = "Ok" => nsets < MaxSets
          /\ g' = r.self
          /\ nsets' = IF r.ret = "Ok" THEN nsets + 1 ELSE nsets
          /\ last' = Call("set", x, y, item, r.ret, FALSE, g)
    /\ UNCHANGED <<args, alive, iters>>

Get(x, y) ==
    /\ Usable
    /\ last' = Call("get", x, y, Default, get(g, x, y), FALSE, g)
    /\ UNCHANGED <<g, args, alive, nsets, iters>>

GetRow(row_idx) ==
    /\ Usable
    /\ LET r == get_row(g, row_idx)
       IN last' = Call("get_row", 0, row_idx, Default, r.ret, r.panicked, g)
    /\ UNCHANGED <<g, args, alive, nsets, iters>>

GridCopy ==
    /\ Usable
    /\ last' = Call("grid", 0, 0, Default, grid(g), FALSE, g)
    /\ UNCHANGED <<g, args, alive, nsets, iters>>

Fmt ==
    /\ Usable
    /\ LET r == fmt(g)
       IN last' = Call("fmt", 0, 0, Default, r.ret, r.panicked, g)
    /\ UNCHANGED <<g, args, alive, nsets, iters>>

\* A traversal in progress: the iterator `it`, the items it has yielded so
\* far, whether next() has returned None, how it was made, and the grid as
\* it was when the traversal was started.
Traversal(it, kind, src) ==
    [it |-> it, yielded |-> <<>>, done |-> FALSE, kind |-> kind, src |-> src]

Iter ==
    /\ Usable
    /\ Len(iters) < Cardinality(Traversals)
    /\ iters' = Append(iters, Traversal(iter(g), "iter", g))
    /\ last' = Call("iter", 0, 0, Default, <<>>, FALSE, g)
    /\ UNCHANGED <<g, args, alive, nsets>>

IntoIter ==
    /\ Usable
    /\ Len(iters) < Cardinality(Traversals)
    /\ iters' = Append(iters, Traversal(into_iter(g), "into_iter", g))
    /\ alive' = FALSE
    /\ last' = Call("into_iter", 0, 0, Default, <<>>, FALSE, g)
    /\ UNCHANGED <<g, args, nsets>>

\* The consumer calls next() until it first returns None.
NextItem(i) ==
    /\ ~last.panicked
    /\ i \in 1..Len(iters)
    /\ ~iters[i].done
    /\ LET r == next(iters[i].it)
       IN /\ iters' = [iters EXCEPT ![i].it = r.self,
                                    ![i].yielded = IF r.ret = None THEN @ ELSE Append(@, r.ret[1]),
                                    ![i].done = (r.ret = None)]
          /\ last' = Call("next", i, 0, Default, r.ret, FALSE, g)
    /\ UNCHANGED <<g, args, alive, nsets>>

Next ==
    \/ \E x \in Coords, y \in Coords, item \in Elems : Set(x, y, item)
    \/ \E x \in Coords, y \in Coords : Get(x, y)
    \/ \E row_idx \in Rows : GetRow(row_idx)
    \/ GridCopy
    \/ Fmt

Spec == Init /\ [][Next]_vars

NextIter ==
    \/ \E x \in Cells, y \in Cells, item \in Elems : Set(x, y, item)
    \/ Iter
    \/ IntoIter
    \/ \E i \in Traversals : NextItem(i)

\* Traversals are followed on grids of at most MaxCells cells.
InitIter == Init /\ args[1] * args[2] <= MaxCells

SpecIter == InitIter /\ [][NextIter]_vars

\* ================================================================ claims
Width == g.grid_size[1]
Height == g.grid_size[2]
InBounds(self, x, y) ==
    x >= 0 /\ x < self.grid_size[1] /\ y >= 0 /\ y < self.grid_size[2]
\* The physical index of a logical coordinate, as an unbounded integer.
PhysIndex(self, x, y) == (y * self.grid_size[1] + x) + self.offset
HasSlot(self, x, y) ==
    PhysIndex(self, x, y) >= 0 /\ PhysIndex(self, x, y) < Len(self.grid)

\* C1: in a zero-offset grid, set(x,y,v) at an in-bounds (x,y) succeeds, a
\* following get(x,y) returns v, and the buffer grid() returns has the same
\* length width*height and differs from the buffer before the call at most
\* at index y*width+x, which holds v; every other in-bounds cell reads as
\* before.
C1_SetRoundTrip ==
    (last.op = "set" /\ g.offset = 0 /\ InBounds(g, last.x, last.y)) =>
        LET k == last.y * Width + last.x + 1
        IN /\ last.ret = "Ok"
           /\ get(g, last.x, last.y) = Some(last.item)
           /\ Len(grid(g)) = Width * Height
           /\ Len(last.before.grid) = Width * Height
           /\ grid(g)[k] = last.item
           /\ \A i \in 1..Len(grid(g)) : i /= k => grid(g)[i] = last.before.grid[i]
           /\ \A x \in 0..(Width - 1), y \in 0..(Height - 1) :
                  <<x, y>> /= <<last.x, last.y>> =>
                      get(g, x, y) = get(last.before, x, y)

C1_Witness ==
    /\ last.op = "set" /\ g.offset = 0 /\ last.ret = "Ok"
    /\ last.x >= 1 /\ last.y >= 1 /\ Width >= 2 /\ Height >= 2
    /\ last.item /= last.before.grid[last.y * Width + last.x + 1]
    /\ \E i \in 1..Len(last.before.grid) :
           i /= last.y * Width + last.x + 1 /\ last.before.grid[i] = TRUE

\* C2: a grid made by new(width, height, 0, 0) and not yet written returns
\* the default value from get(x,y) for 0 <= x < width, 0 <= y < height and
\* None for every other (x,y), negative ones included.
C2_FreshGet ==
    (last.op = "get" /\ nsets = 0 /\ args[3] = 0 /\ args[4] = 0) =>
        last.ret = IF InBounds(g, last.x, last.y) THEN Some(Default) ELSE None

C2_Witness ==
    /\ last.op = "get" /\ nsets = 0 /\ args[3] = 0 /\ args[4] = 0
    /\ Width >= 2 /\ Height >= 2
    /\ last.x < 0 /\ last.y >= 0 /\ last.y < Height
    /\ last.ret = None

\* C4 as stated: in a grid constructed with (x_offset, y_offset) /= (0,0),
\* get(x,y) always returns a present element, set(x,y,v) always succeeds,
\* and get(x,y) after the set returns v.
C4_Original ==
    (args[3] /= 0 \/ args[4] /= 0) =>
        /\ last.op = "get" => last.ret /= None
        /\ last.op = "set" =>
               last.ret = "Ok" /\ get(g, last.x, last.y) = Some(last.item)

\* C4 amended: in a grid whose offset y_offset*height + x_offset is not 0,
\* check_bounds accepts every coordinate; get(x,y) returns a present element
\* exactly when the physical index (y*width + x) + offset lies in
\* [0, width*height), and None otherwise; set(x,y,v) succeeds exactly under
\* the same condition, and get(x,y) after a successful set returns v.
C4_OffsetAccess ==
    g.offset /= 0 =>
        /\ last.op \in {"get", "set"} => check_bounds(g, last.x, last.y)
        /\ last.op = "get" =>
               /\ (last.ret /= None) = HasSlot(g, last.x, last.y)
               /\ last.ret /= None =>
                      last.ret = Some(g.grid[PhysIndex(g, last.x, last.y) + 1])
        /\ last.op = "set" =>
               /\ (last.ret = "Ok") = HasSlot(g, last.x, last.y)
               /\ last.ret = "Ok" => get(g, last.x, last.y) = Some(last.item)

C4_Witness ==
    /\ g.offset /= 0 /\ last.op = "set" /\ last.ret = "Ok"
    /\ last.x < 0 /\ last.y < 0 /\ last.item = TRUE
    /\ get(g, last.x, last.y) = Some(TRUE)

\* C5: whenever set(x,y,v) returns Err, whatever the offset and whichever
\* of the two causes, the grid (storage, dimensions, offset) is as it was
\* before the call.
C5_RejectedSetUnchanged ==
    (last.op = "set" /\ last.ret = "Err") => g = last.before

C5_Witness ==
    /\ last.op = "set" /\ last.ret = "Err" /\ last.item = TRUE
    /\ g.offset = 0 /\ ~InBounds(g, last.x, last.y)
    /\ HasSlot(g, last.x, last.y)
    /\ nsets >= 1

\* C8 as stated: get_row(row_idx) returns the width elements at physical
\* indices [row_idx*width, row_idx*width + width) when row_idx < height, and
\* panics when row_idx >= height.
C8_Original ==
    last.op = "get_row" =>
        IF last.y < Height
        THEN /\ ~last.panicked
             /\ last.ret = [i \in 1..Width |-> g.grid[last.y * Width + i]]
        ELSE last.panicked

\* C8 amended: when row_idx < height, get_row(row_idx) returns exactly the
\* width elements at physical indices [row_idx*width, row_idx*width + width),
\* ignoring the offset; when row_idx >= height it panics if width > 0 and
\* returns the empty slice if width = 0.
C8_GetRow ==
    last.op = "get_row" =>
        IF last.y < Height
        THEN /\ ~last.panicked
             /\ Len(last.ret) = Width
             /\ last.ret = [i \in 1..Width |-> g.grid[last.y * Width + i]]
        ELSE IF Width > 0
             THEN last.panicked
             ELSE ~last.panicked /\ last.ret = <<>>

C8_Witness ==
    /\ last.op = "get_row" /\ ~last.panicked
    /\ last.y >= 1 /\ last.y < Height /\ Width >= 2 /\ g.offset /= 0
    /\ \E i \in 1..Width : last.ret[i] = TRUE

\* Concatenation of a sequence of sequences.
RECURSIVE Flatten(_)
Flatten(ss) == IF ss = <<>> THEN <<>> ELSE Head(ss) \o Flatten(Tail(ss))

\* Line r (0-based) of the rendering of a buffer of the given width.
RenderedLine(buf, width, r) ==
    Flatten([c \in 1..width |-> Format(buf[r * width + c])]) \o <<"\n">>

\* C9: whatever the offset and the sets done so far, the Display rendering
\* is one newline followed by height lines; line r is the concatenation,
\* without separator, of the textual forms of the elements at physical
\* indices r*width .. r*width+width-1, and ends with a newline.
C9_Display ==
    last.op = "fmt" =>
        /\ ~last.panicked
        /\ last.ret = <<"\n">> \o
               Flatten([r \in 1..Height |-> RenderedLine(g.grid, Width, r - 1)])
        /\ Cardinality({i \in 1..Len(last.ret) : last.ret[i] = "\n"}) = Height + 1

C9_Witness ==
    /\ last.op = "fmt" /\ ~last.panicked
    /\ g.offset /= 0 /\ Width >= 2 /\ Height >= 2
    /\ \E i \in 1..Len(g.grid) : g.grid[i] = TRUE
    /\ Len(last.ret) > Width * Height + Height + 1

\* C10 as stated: in a grid with a non-zero offset, a successful set(x,y,v)
\* leaves get(x',y') as it was for every (x',y') other than (x,y).
C10_Original ==
    (last.op = "set" /\ g.offset /= 0 /\ last.ret = "Ok") =>
        \A x \in Coords, y \in Coords :
            <<x, y>> /= <<last.x, last.y>> =>
                get(g, x, y) = get(last.before, x, y)

\* C10 amended: in a grid with a non-zero offset, a successful set(x,y,v)
\* leaves get(x',y') as it was for every (x',y') whose physical index
\* y'*width + x' differs from y*width + x; every (x',y') with the same
\* physical index reads v afterwards.
C10_SetFrame ==
    (last.op = "set" /\ g.offset /= 0 /\ last.ret = "Ok") =>
        \A x \in Coords, y \in Coords :
            IF PhysIndex(g, x, y) = PhysIndex(g, last.x, last.y)
            THEN get(g, x, y) = Some(last.item)
            ELSE get(g, x, y) = get(last.before, x, y)

C10_Witness ==
    /\ last.op = "set" /\ g.offset /= 0 /\ last.ret = "Ok"
    /\ get(last.before, last.x, last.y) /= Some(last.item)
    /\ \E x \in Coords, y \in Coords :
           /\ <<x, y>> /= <<last.x, last.y>>
           /\ PhysIndex(g, x, y) = PhysIndex(g, last.x, last.y)
           /\ get(g, x, y) /= get(last.before, x, y)

\* The items a new traversal of the grid `self` yields before next() first
\* returns None.
RECURSIVE Drain(_, _)
Drain(it, acc) ==
    LET r == next(it)
    IN IF r.ret = None THEN acc ELSE Drain(r.self, Append(acc, r.ret[1]))

Prefix(s, t) == Len(s) <= Len(t) /\ s = SubSeq(t, 1, Len(s))

TWidth(t) == t.src.grid_size[1]
THeight(t) == t.src.grid_size[2]

\* C3: a traversal of a zero-offset w x h grid, made by iter() or
\* into_iter(), yields its items in row-major order (item k, from 0, has
\* x = k mod w and y = k div w), and when next() first returns None it has
\* yielded exactly w*h items, every (x,y) of [0,w) x [0,h) exactly once.
C3_ZeroOffsetTraversal ==
    \A n \in 1..Len(iters) :
        LET t == iters[n]
        IN t.src.offset = 0 =>
            /\ Len(t.yielded) <= TWidth(t) * THeight(t)
            /\ \A k \in 0..(Len(t.yielded) - 1) :
                   /\ t.yielded[k + 1].x = k % TWidth(t)
                   /\ t.yielded[k + 1].y = k \div TWidth(t)
            /\ t.done =>
                   /\ Len(t.yielded) = TWidth(t) * THeight(t)
                   /\ \A x \in 0..(TWidth(t) - 1), y \in 0..(THeight(t) - 1) :
                          Cardinality({k \in 1..Len(t.yielded) :
                              t.yielded[k].x = x /\ t.yielded[k].y = y}) = 1

C3_Witness ==
    /\ Len(iters) = 2
    /\ iters[1].kind = "iter" /\ iters[2].kind = "into_iter"
    /\ \A n \in 1..2 :
           /\ iters[n].done /\ iters[n].src.offset = 0
           /\ TWidth(iters[n]) >= 2 /\ THeight(iters[n]) >= 2
           /\ Len(iters[n].yielded) = TWidth(iters[n]) * THeight(iters[n])

\* C6: whatever the offset, a traversal made by iter() or into_iter() has
\* yielded exactly width*height items, one for every (x,y) of
\* [0,width) x [0,height), when next() first returns None.
C6_FullTraversal ==
    \A n \in 1..Len(iters) :
        LET t == iters[n]
        IN t.done =>
            /\ Len(t.yielded) = TWidth(t) * THeight(t)
            /\ \A x \in 0..(TWidth(t) - 1), y \in 0..(THeight(t) - 1) :
                   \E k \in 1..Len(t.yielded) :
                       t.yielded[k].x = x /\ t.yielded[k].y = y

\* C7: the items a traversal made by iter() yields are those a traversal
\* of the grid as it was at the iter() call yields, from the first cell on,
\* whatever set calls are made on the grid, and whatever other traversal is
\* in progress, between the next() calls.
C7_SnapshotTraversal ==
    \A n \in 1..Len(iters) :
        LET t == iters[n]
            whole == Drain([grid |-> t.src, x |-> 0, y |-> 0], <<>>)
        IN t.kind = "iter" =>
            /\ Prefix(t.yielded, whole)
            /\ t.done => t.yielded = whole
            /\ \A k \in 1..Len(t.yielded) :
                   t.yielded[k].element =
                       t.src.grid[PhysIndex(t.src, t.yielded[k].x, t.yielded[k].y) + 1]

C7_Witness ==
    /\ Len(iters) = 2
    /\ iters[1].kind = "iter" /\ iters[2].kind = "iter"
    /\ iters[1].done /\ iters[2].done
    /\ Len(iters[1].yielded) >= 2
    /\ Len(iters[1].yielded) = Len(iters[2].yielded)
    /\ iters[1].src.grid /= g.grid
    /\ \E k \in 1..Len(iters[1].yielded) :
           iters[1].yielded[k].element /= iters[2].yielded[k].element
====
